---- MODULE Spec2Model ----
(***************************************************************************)
(* Model of src/strudel-snippet-library.js: class StrudelSnippetLibrary.    *)
(* The constructor flattens a folder/snippet tree into a path-keyed object  *)
(* (flatSnippets); the query methods read that object.                      *)
(*                                                                         *)
(* JavaScript strings are sequences of one-character strings, so that       *)
(* toLowerCase, includes, join, split and startsWith are computed.          *)
(* A JavaScript object is the sequence of its own enumerable properties in  *)
(* Object.entries order, together with what it inherits.                    *)
(***************************************************************************)
EXTENDS Integers, Sequences, FiniteSets, TLC

VARIABLES data, flatSnippets, pc, call, ret

vars == <<data, flatSnippets, pc, call, ret>>

-----------------------------------------------------------------------------
(* Values that may be undefined / null.                                     *)

Undefined == [defined |-> FALSE, value |-> <<>>]

Some(v) == [defined |-> TRUE, value |-> v]

-----------------------------------------------------------------------------
(* String primitives.                                                       *)

SLASH == <<"/">>

ROOT == <<"R", "o", "o", "t">>

PROTO == <<"_", "_", "p", "r", "o", "t", "o", "_", "_">>

\* String.prototype.toLowerCase on one character of the model's alphabet.
LowerChar(c) ==
  CASE c = "A" -> "a"
    [] c = "B" -> "b"
    [] c = "R" -> "r"
    [] OTHER -> c

toLowerCase(s) == [i \in 1..Len(s) |-> LowerChar(s[i])]

\* String.prototype.includes: q occurs in s at some offset (the empty
\* string occurs in every string).
includes(s, q) ==
  \E i \in 0..(Len(s) - Len(q)) : SubSeq(s, i + 1, i + Len(q)) = q

startsWith(s, q) ==
  Len(q) <= Len(s) /\ SubSeq(s, 1, Len(q)) = q

\* Array.prototype.join('/').
RECURSIVE join(_)
join(path) ==
  IF Len(path) = 0 THEN <<>>
  ELSE IF Len(path) = 1 THEN path[1]
  ELSE path[1] \o SLASH \o join(Tail(path))

\* String.prototype.split('/').length: one more than the number of '/'.
RECURSIVE splitLength(_)
splitLength(s) ==
  IF Len(s) = 0 THEN 1
  ELSE (IF Head(s) = "/" THEN 1 ELSE 0) + splitLength(Tail(s))

-----------------------------------------------------------------------------
(* Ordinary objects: own properties in OrdinaryOwnPropertyKeys order        *)
(* (array-index keys ascending, then the other keys in insertion order),    *)
(* and the prototype the object inherits from.                              *)

DigitValue(c) ==
  CASE c = "0" -> 0 [] c = "1" -> 1 [] c = "2" -> 2 [] c = "3" -> 3
    [] c = "4" -> 4 [] c = "5" -> 5 [] c = "6" -> 6 [] c = "7" -> 7
    [] c = "8" -> 8 [] c = "9" -> 9 [] OTHER -> -1

RECURSIVE NumericValue(_)
NumericValue(s) ==
  IF Len(s) = 0 THEN 0
  ELSE 10 * NumericValue(SubSeq(s, 1, Len(s) - 1)) + DigitValue(s[Len(s)])

\* A canonical numeric string below 2^32 - 1 is an array index; every such
\* string of at most nine digits is one, and the model's keys are shorter.
IsArrayIndex(k) ==
  /\ Len(k) >= 1
  /\ Len(k) <= 9
  /\ \A i \in 1..Len(k) : DigitValue(k[i]) >= 0
  /\ (Len(k) > 1 => k[1] # "0")

\* k1 is enumerated before k2 when k2 is appended after k1.
KeyBefore(k1, k2) ==
  IF IsArrayIndex(k1)
  THEN (~IsArrayIndex(k2)) \/ NumericValue(k1) < NumericValue(k2)
  ELSE ~IsArrayIndex(k2)

HasOwn(props, k) == \E i \in 1..Len(props) : props[i][1] = k

OwnIndex(props, k) == CHOOSE i \in 1..Len(props) : props[i][1] = k

\* The object literal {} of flattenSnippets' default parameter: no own
\* property, prototype Object.prototype (proto undefined here), not thrown.
EmptyObject == [threw |-> FALSE, props |-> <<>>, proto |-> Undefined]

\* Where a new own property k is enumerated among props.
RECURSIVE InsertProp(_, _, _)
InsertProp(props, k, v) ==
  IF Len(props) = 0 THEN << <<k, v>> >>
  ELSE IF KeyBefore(props[1][1], k)
       THEN << props[1] >> \o InsertProp(Tail(props), k, v)
       ELSE << <<k, v>> >> \o props

\* obj[k] = v on an ordinary object. '__proto__' is the accessor inherited
\* from Object.prototype: assigning an object to it replaces the prototype
\* and creates no own property. An existing own key keeps its position.
JSSet(obj, k, v) ==
  IF k = PROTO THEN [obj EXCEPT !.proto = Some(v)]
  ELSE IF HasOwn(obj.props, k)
       THEN [obj EXCEPT !.props[OwnIndex(obj.props, k)] = <<k, v>>]
       ELSE [obj EXCEPT !.props = InsertProp(obj.props, k, v)]

\* Object.entries(obj).
ObjectEntries(obj) == obj.props

\* Property names every ordinary object inherits from Object.prototype
\* (those the model's callers can name).
ObjectPrototypeKeys ==
  { <<"c", "o", "n", "s", "t", "r", "u", "c", "t", "o", "r">>,
    <<"t", "o", "S", "t", "r", "i", "n", "g">>,
    <<"v", "a", "l", "u", "e", "O", "f">>,
    PROTO }

\* The own property names of an index entry (lines 25-29).
EntryFieldNames ==
  { <<"n", "a", "m", "e">>, <<"t", "e", "x", "t">>, <<"p", "a", "t", "h">>,
    <<"c", "a", "t", "e", "g", "o", "r", "y">>,
    <<"s", "u", "b", "c", "a", "t", "e", "g", "o", "r", "y">> }

\* Truthiness of entry e's field k.
EntryFieldTruthy(e, k) ==
  CASE k = <<"n", "a", "m", "e">> -> Len(e.name) > 0
    [] k = <<"t", "e", "x", "t">> -> e.text.defined /\ Len(e.text.value) > 0
    [] k = <<"p", "a", "t", "h">> -> TRUE
    [] k = <<"c", "a", "t", "e", "g", "o", "r", "y">> -> Len(e.category) > 0
    [] OTHER -> e.subcategory.defined /\ Len(e.subcategory.value) > 0

\* obj[k] || null: what the property read yields through the prototype
\* chain. kind "entry": an index entry object; "other": a truthy value that
\* is no index entry (an inherited function, string or array); "null".
JSGetOrNull(obj, k) ==
  IF HasOwn(obj.props, k)
  THEN [kind |-> "entry", entry |-> Some(obj.props[OwnIndex(obj.props, k)][2])]
  ELSE IF obj.proto.defined /\ k = PROTO
       THEN [kind |-> "entry", entry |-> obj.proto]
  ELSE IF obj.proto.defined /\ k \in EntryFieldNames
       THEN IF EntryFieldTruthy(obj.proto.value, k)
            THEN [kind |-> "other", entry |-> Undefined]
            ELSE [kind |-> "null", entry |-> Undefined]
  ELSE IF k \in ObjectPrototypeKeys
       THEN [kind |-> "other", entry |-> Undefined]
  ELSE [kind |-> "null", entry |-> Undefined]

-----------------------------------------------------------------------------
(* The Document: each JSON object is the sequence of its <<key, value>>     *)
(* pairs in Object.entries order.                                           *)

Snippet(n, t) ==
  [isNull |-> FALSE, type |-> "snippet", name |-> n, text |-> Some(t),
   children |-> Undefined]

Folder(ch) ==
  [isNull |-> FALSE, type |-> "folder", name |-> <<>>, text |-> Undefined,
   children |-> Some(ch)]

\* Malformed nodes: no type, an unknown type, a folder without children,
\* a snippet without text, and a JSON null in place of a node.
NoTypeNode ==
  [isNull |-> FALSE, type |-> "undefined", name |-> <<"a">>,
   text |-> Some(<<"a">>), children |-> Undefined]

UnknownTypeNode ==
  [isNull |-> FALSE, type |-> "link", name |-> <<"a">>,
   text |-> Some(<<"a">>), children |-> Undefined]

FolderNoChildren ==
  [isNull |-> FALSE, type |-> "folder", name |-> <<>>, text |-> Undefined,
   children |-> Undefined]

SnippetNoText ==
  [isNull |-> FALSE, type |-> "snippet", name |-> <<"a">>,
   text |-> Undefined, children |-> Undefined]

NullNode ==
  [isNull |-> TRUE, type |-> "undefined", name |-> <<>>, text |-> Undefined,
   children |-> Undefined]

-----------------------------------------------------------------------------
(* Tree Indexer.                                                            *)

\* Mutant of IndexEntry: the category and subcategory are read from
\* currentPath, so a top-level snippet's own key becomes its category.
IndexEntry_FromCurrentPath(value, path, currentPath) ==
  [name |-> value.name,
   text |-> value.text,
   path |-> currentPath,
   category |-> IF Len(currentPath[1]) > 0 THEN currentPath[1] ELSE ROOT,
   subcategory |-> IF Len(currentPath) >= 2 /\ Len(currentPath[2]) > 0
                   THEN Some(currentPath[2]) ELSE Undefined]

\* The object literal of lines 24-30.
IndexEntry(value, path, currentPath) ==
  [name |-> value.name,
   text |-> value.text,
   path |-> currentPath,
   category |-> IF Len(path) >= 1 /\ Len(path[1]) > 0 THEN path[1] ELSE ROOT,
   subcategory |-> IF Len(path) >= 2 /\ Len(path[2]) > 0
                   THEN Some(path[2]) ELSE Undefined]

\* Mutant of flattenSnippets: line 31 without `&& value.children`, so that
\* a folder without children makes Object.entries(undefined) throw.
RECURSIVE flattenSnippets_NoChildrenGuard(_, _, _)
flattenSnippets_NoChildrenGuard(obj, path, result) ==
  IF Len(obj) = 0 THEN result
  ELSE LET key == obj[1][1]
           value == obj[1][2]
           currentPath == Append(path, key)
           r1 == IF value.isNull THEN [result EXCEPT !.threw = TRUE]
                 ELSE IF value.type = "snippet"
                   THEN JSSet(result, join(currentPath),
                              IndexEntry(value, path, currentPath))
                 ELSE IF value.type = "folder"
                   THEN IF value.children.defined
                        THEN flattenSnippets_NoChildrenGuard(
                               value.children.value, currentPath, result)
                        ELSE [result EXCEPT !.threw = TRUE]
                 ELSE result
       IN  IF r1.threw THEN r1
           ELSE flattenSnippets_NoChildrenGuard(Tail(obj), path, r1)

\* flattenSnippets(obj, path, result), lines 19-36. Reading value.type of
\* a null value throws a TypeError, which ends the whole walk.
RECURSIVE flattenSnippets(_, _, _)
flattenSnippets(obj, path, result) ==
  IF Len(obj) = 0 THEN result
  ELSE LET key == obj[1][1]
           value == obj[1][2]
           currentPath == Append(path, key)
           r1 == IF value.isNull THEN [result EXCEPT !.threw = TRUE]
                 ELSE IF value.type = "snippet"
                   THEN JSSet(result, join(currentPath),
                              IndexEntry(value, path, currentPath))
                 ELSE IF value.type = "folder" /\ value.children.defined
                   THEN flattenSnippets(value.children.value, currentPath, result)
                 ELSE result
       IN  IF r1.threw THEN r1 ELSE flattenSnippets(Tail(obj), path, r1)

-----------------------------------------------------------------------------
(* Query Engine.                                                            *)

\* {...snippet, fullPath: path}
WithFullPath(snippet, path) ==
  [name |-> snippet.name, text |-> snippet.text, path |-> snippet.path,
   category |-> snippet.category, subcategory |-> snippet.subcategory,
   fullPath |-> path]

\* {...snippet, fullPath: path, score: score}
WithScore(snippet, path, score) ==
  [name |-> snippet.name, text |-> snippet.text, path |-> snippet.path,
   category |-> snippet.category, subcategory |-> snippet.subcategory,
   fullPath |-> path, score |-> score]

\* Mutant of EntryAfterSpread: fullPath assigned to the entry itself, as
\* Object.assign(snippet, {fullPath: path}) would.
EntryAfterSpread_Assign(snippet, path) == WithFullPath(snippet, path)

\* The index entry once a query has built an item from it. The object
\* literal `{...snippet, fullPath: path}` (lines 109-113, 165-168, 186-189,
\* 229-232) copies the entry's own properties into a new object and gives
\* fullPath and score to the copy; the entry keeps its five properties.
EntryAfterSpread(snippet, path) == snippet

\* this.flatSnippets once a query has built `items` from its entries. The
\* items go into a new array (lines 82, 161, 181, 216) and line 120 sorts
\* that array, so the index keeps its keys and their order.
IndexAfter(flat, items) ==
  [flat EXCEPT !.props =
     [i \in 1..Len(flat.props) |->
        IF \E j \in 1..Len(items) : items[j].fullPath = flat.props[i][1]
        THEN <<flat.props[i][1],
               EntryAfterSpread(flat.props[i][2], flat.props[i][1])>>
        ELSE flat.props[i]]]

\* A string option is truthy when it is given and not the empty string.
Truthy(opt) == opt.defined /\ Len(opt.value) > 0

\* Mutant of calculateRelevanceScore: `if` in place of `else if` at line
\* 135, so that an exact name match also gets the 50 of a partial match.
calculateRelevanceScore_NoElse(snippet, query, path) ==
  (IF toLowerCase(snippet.name) = query THEN 100 ELSE 0)
  + (IF includes(toLowerCase(snippet.name), query) THEN 50 ELSE 0)
  + (IF includes(toLowerCase(path), query) THEN 25 ELSE 0)
  - splitLength(path)

\* calculateRelevanceScore(snippet, query, path), lines 130-144.
calculateRelevanceScore(snippet, query, path) ==
  (IF toLowerCase(snippet.name) = query THEN 100
   ELSE IF includes(toLowerCase(snippet.name), query) THEN 50
   ELSE 0)
  + (IF includes(toLowerCase(path), query) THEN 25 ELSE 0)
  - splitLength(path)

\* Mutant of Matches: the category filter compares without toLowerCase.
Matches_CaseSensitiveCategory(path, snippet, lowerQuery, searchInText, category) ==
  /\ \/ includes(toLowerCase(snippet.name), lowerQuery)
     \/ includes(toLowerCase(path), lowerQuery)
     \/ searchInText /\ includes(toLowerCase(snippet.text.value), lowerQuery)
  /\ ~(Truthy(category) /\ snippet.category # category.value)

\* The value of `matches` at line 108 for one entry.
Matches(path, snippet, lowerQuery, searchInText, category) ==
  /\ \/ includes(toLowerCase(snippet.name), lowerQuery)
     \/ includes(toLowerCase(path), lowerQuery)
     \/ searchInText /\ includes(toLowerCase(snippet.text.value), lowerQuery)
  /\ ~(Truthy(category)
       /\ toLowerCase(snippet.category) # toLowerCase(category.value))

\* The for loop of lines 85-117, from entry i on. snippet.text.toLowerCase()
\* throws a TypeError when searchInText is set and text is undefined.
RECURSIVE SearchLoop(_, _, _, _, _, _, _)
SearchLoop(entries, i, results, lowerQuery, searchInText, category, maxResults) ==
  IF i > Len(entries) THEN [threw |-> FALSE, list |-> results]
  ELSE LET path == entries[i][1]
           snippet == entries[i][2]
       IN  IF searchInText /\ ~snippet.text.defined
           THEN [threw |-> TRUE, list |-> <<>>]
           ELSE LET pushed ==
                      IF Matches(path, snippet, lowerQuery, searchInText, category)
                      THEN Append(results,
                             WithScore(snippet, path,
                               calculateRelevanceScore(snippet, lowerQuery, path)))
                      ELSE results
                IN  IF Len(pushed) >= maxResults
                    THEN [threw |-> FALSE, list |-> pushed]
                    ELSE SearchLoop(entries, i + 1, pushed, lowerQuery,
                                    searchInText, category, maxResults)

\* Mutant of InsertSorted: an unstable sort, which puts x before the
\* elements of equal score.
RECURSIVE InsertSorted_Unstable(_, _)
InsertSorted_Unstable(sorted, x) ==
  IF Len(sorted) = 0 THEN <<x>>
  ELSE IF sorted[1].score > x.score
       THEN <<sorted[1]>> \o InsertSorted_Unstable(Tail(sorted), x)
       ELSE <<x>> \o sorted

\* Where Array.prototype.sort with comparator (a, b) => b.score - a.score
\* puts x among the already sorted list: after every element that does not
\* compare greater, so that equal scores keep their order (the sort is
\* stable).
RECURSIVE InsertSorted(_, _)
InsertSorted(sorted, x) ==
  IF Len(sorted) = 0 THEN <<x>>
  ELSE IF sorted[1].score >= x.score
       THEN <<sorted[1]>> \o InsertSorted(Tail(sorted), x)
       ELSE <<x>> \o sorted

RECURSIVE SortByScore(_)
SortByScore(list) ==
  IF Len(list) = 0 THEN <<>>
  ELSE InsertSorted(SortByScore(SubSeq(list, 1, Len(list) - 1)), list[Len(list)])

\* searchSnippets(query, options), lines 75-121.
searchSnippets(flat, query, options) ==
  LET r == SearchLoop(ObjectEntries(flat), 1, <<>>, toLowerCase(query),
                      options.searchInText, options.category,
                      options.maxResults)
  IN  IF r.threw THEN r ELSE [threw |-> FALSE, list |-> SortByScore(r.list)]

\* getSnippet(path), lines 151-153.
getSnippet(flat, path) == JSGetOrNull(flat, path)

\* results.push({...snippet, fullPath: path}) for each kept entry, in order.
PushAll(kept) ==
  [i \in 1..Len(kept) |-> WithFullPath(kept[i][2], kept[i][1])]

\* Mutant of getSnippetsByCategory: line 164 without toLowerCase.
getSnippetsByCategory_CaseSensitive(flat, category) ==
  PushAll(SelectSeq(ObjectEntries(flat),
                    LAMBDA p : p[2].category = category))

\* getSnippetsByCategory(category), lines 160-173.
getSnippetsByCategory(flat, category) ==
  PushAll(SelectSeq(ObjectEntries(flat),
                    LAMBDA p : toLowerCase(p[2].category) = toLowerCase(category)))

\* getSnippetsInFolder with the bare folderPath as the prefix.
getSnippetsInFolder_NoSlash(flat, folderPath) ==
  PushAll(SelectSeq(ObjectEntries(flat),
                    LAMBDA p : startsWith(p[1], folderPath)))

\* getSnippetsInFolder(folderPath), lines 180-194.
getSnippetsInFolder(flat, folderPath) ==
  LET folderPrefix == folderPath \o SLASH
  IN  PushAll(SelectSeq(ObjectEntries(flat),
                        LAMBDA p : startsWith(p[1], folderPrefix)))

\* getCategories(), lines 200-208: a Set enumerates its elements in
\* insertion order, each once.
RECURSIVE CategoryList(_, _)
CategoryList(entries, acc) ==
  IF Len(entries) = 0 THEN acc
  ELSE CategoryList(Tail(entries),
         IF \E i \in 1..Len(acc) : acc[i] = entries[1][2].category
         THEN acc ELSE Append(acc, entries[1][2].category))

getCategories(flat) == CategoryList(ObjectEntries(flat), <<>>)

\* The candidates of getRandomSnippet(category), lines 216-222.
RandomCandidates(flat, category) ==
  PushAll(SelectSeq(ObjectEntries(flat),
                    LAMBDA p : Truthy(category) =>
                      toLowerCase(p[2].category) = toLowerCase(category.value)))

\* getStats(), lines 239-270. `categories` is an ordinary object: a
\* category named like an inherited property ('__proto__', 'constructor')
\* reads truthy at line 247 without being an own property, so no record is
\* created for it, and reading .subcategories of the inherited value gives
\* undefined, whose .add throws a TypeError.
RECURSIVE StatsLoop(_, _, _)
StatsLoop(entries, categories, total) ==
  IF Len(entries) = 0
  THEN [threw |-> FALSE, categories |-> categories, total |-> total]
  ELSE LET snippet == entries[1][2]
           c == snippet.category
           inherited == ~HasOwn(categories, c) /\ c \in ObjectPrototypeKeys
           cats1 == IF HasOwn(categories, c) \/ inherited THEN categories
                    ELSE InsertProp(categories, c,
                           [count |-> 0, subcategories |-> <<>>])
       IN  IF inherited
           THEN IF Truthy(snippet.subcategory)
                THEN [threw |-> TRUE, categories |-> <<>>, total |-> 0]
                ELSE StatsLoop(Tail(entries), cats1, total + 1)
           ELSE LET j == OwnIndex(cats1, c)
                    d == cats1[j][2]
                    seen == \E i \in 1..Len(d.subcategories) :
                              d.subcategories[i] = snippet.subcategory.value
                    d2 == [count |-> d.count + 1,
                           subcategories |->
                             IF Truthy(snippet.subcategory) /\ ~seen
                             THEN Append(d.subcategories,
                                         snippet.subcategory.value)
                             ELSE d.subcategories]
                IN  StatsLoop(Tail(entries),
                              [cats1 EXCEPT ![j] = <<c, d2>>], total + 1)

getStats(flat) ==
  LET r == StatsLoop(ObjectEntries(flat), <<>>, 0)
  IN  [threw |-> r.threw,
       totalSnippets |-> r.total,
       categories |-> Len(r.categories),
       categoriesDetail |-> r.categories]

-----------------------------------------------------------------------------
(* Inputs.                                                                  *)

\* Sequences of at most two <<key, node>> pairs, as Object.entries yields
\* them: distinct keys, array-index keys first and ascending.
Children(keys, nodes) ==
  {<<>>}
  \cup { << <<k, n>> >> : k \in keys, n \in nodes }
  \cup { << <<k1, n1>>, <<k2, n2>> >> :
           <<k1, k2>> \in {kk \in keys \X keys :
                             kk[1] # kk[2] /\ KeyBefore(kk[1], kk[2])},
           <<n1, n2>> \in nodes \X nodes }

SnippetA == Snippet(<<"A">>, <<"b">>)

SnippetAb == Snippet(<<"a", "b">>, <<"b">>)

SnippetB == Snippet(<<"b">>, <<"a">>)

\* Folders of the query documents: empty, one or two snippets, and a
\* sub-folder holding one snippet.
QueryFolders ==
  { Folder(ch) : ch \in Children({<<"a">>, <<"b">>}, {SnippetA, SnippetB}) }
  \cup { Folder(<< <<k, Folder(<< <<(<<"a">>), SnippetA>> >>)>> >>) :
           k \in {<<"b">>} }

QueryDocuments ==
  Children({<<"a">>, <<"A">>, <<"a", "b">>},
           {SnippetA, SnippetAb, SnippetB} \cup QueryFolders)

\* Documents for the indexer: keys that are empty, '__proto__' or array
\* indices, malformed nodes, and folders nested two deep.
IndexerFolders ==
  { Folder(<<>>) }
  \cup { Folder(<< <<k, n>> >>) :
           k \in {<<>>, <<"a">>}, n \in {SnippetA, SnippetNoText} }
  \cup { Folder(<< <<k, Folder(<< <<(<<"a">>), SnippetA>> >>)>> >>) :
           k \in {<<>>, <<"b">>} }

Malformed ==
  {NoTypeNode, UnknownTypeNode, FolderNoChildren, SnippetNoText, NullNode}

IndexerDocuments ==
  Children({<<>>, <<"a">>, PROTO, <<"1">>, <<"2">>},
           {SnippetA, SnippetB} \cup Malformed \cup IndexerFolders)

Documents == QueryDocuments \cup IndexerDocuments


\* options.maxResults ranges over the default and -1..MaxResultsBound.
MaxResultsBound == 2

\* maxResults = 20 of the destructuring default (line 79).
DefaultMaxResults == 20

MaxResultsOptions == {DefaultMaxResults} \cup (-1..MaxResultsBound)

Queries == {<<>>, <<"a">>, <<"B">>}

\* options.category / getRandomSnippet's category: absent, '' or a name.
CategoryOptions == {Undefined, Some(<<>>), Some(<<"A">>)}

CategoryArgs == {<<>>, <<"a">>, <<"A">>, <<"r", "o", "o", "t">>, PROTO}

FolderArgs == {<<>>, <<"a">>, <<"a", "/", "b">>, <<"A">>}

LookupPaths ==
  {<<>>, <<"a">>, <<"a", "/", "a">>, <<"b", "/", "a">>, PROTO,
   <<"n", "a", "m", "e">>,
   <<"c", "o", "n", "s", "t", "r", "u", "c", "t", "o", "r">>}

-----------------------------------------------------------------------------
(* The library instance.                                                    *)

NoCall == [op |-> "none"]

NoReturn == [threw |-> FALSE]

Init ==
  /\ data \in Documents
  /\ flatSnippets = EmptyObject
  /\ pc = "new"
  /\ call = NoCall
  /\ ret = NoReturn

\* new StrudelSnippetLibrary(jsonData), lines 7-10. A throw inside
\* flattenSnippets leaves no instance.
Constructor ==
  /\ pc = "new"
  /\ LET r == flattenSnippets(data, <<>>, EmptyObject)
     IN  /\ pc' = IF r.threw THEN "failed" ELSE "ready"
         /\ flatSnippets' = IF r.threw THEN EmptyObject ELSE r
  /\ UNCHANGED <<data, call, ret>>

SearchSnippets ==
  /\ pc = "ready"
  /\ \E query \in Queries, searchInText \in BOOLEAN,
        category \in CategoryOptions, maxResults \in MaxResultsOptions :
       LET options == [searchInText |-> searchInText, category |-> category,
                       maxResults |-> maxResults]
           r == searchSnippets(flatSnippets, query, options)
       IN  /\ call' = [op |-> "searchSnippets", query |-> query,
                       options |-> options]
           /\ ret' = r
           /\ flatSnippets' = IndexAfter(flatSnippets, r.list)
  /\ pc' = "returned"
  /\ UNCHANGED data

GetSnippet ==
  /\ pc = "ready"
  /\ \E path \in LookupPaths \cup
                 {flatSnippets.props[i][1] : i \in 1..Len(flatSnippets.props)} :
       /\ call' = [op |-> "getSnippet", path |-> path]
       /\ ret' = [threw |-> FALSE, value |-> getSnippet(flatSnippets, path)]
  /\ pc' = "returned"
  /\ UNCHANGED <<data, flatSnippets>>

GetSnippetsByCategory ==
  /\ pc = "ready"
  /\ \E category \in CategoryArgs :
       LET results == getSnippetsByCategory(flatSnippets, category)
       IN  /\ call' = [op |-> "getSnippetsByCategory", category |-> category]
           /\ ret' = [threw |-> FALSE, list |-> results]
           /\ flatSnippets' = IndexAfter(flatSnippets, results)
  /\ pc' = "returned"
  /\ UNCHANGED data

GetSnippetsInFolder ==
  /\ pc = "ready"
  /\ \E folderPath \in FolderArgs :
       LET results == getSnippetsInFolder(flatSnippets, folderPath)
       IN  /\ call' = [op |-> "getSnippetsInFolder", folderPath |-> folderPath]
           /\ ret' = [threw |-> FALSE, list |-> results]
           /\ flatSnippets' = IndexAfter(flatSnippets, results)
  /\ pc' = "returned"
  /\ UNCHANGED data

GetCategories ==
  /\ pc = "ready"
  /\ call' = [op |-> "getCategories"]
  /\ ret' = [threw |-> FALSE, list |-> getCategories(flatSnippets)]
  /\ pc' = "returned"
  /\ UNCHANGED <<data, flatSnippets>>

\* getRandomSnippet(category), lines 215-233: Math.random picks any
\* candidate.
GetRandomSnippet ==
  /\ pc = "ready"
  /\ \E category \in CategoryOptions :
       LET snippets == RandomCandidates(flatSnippets, category)
       IN  /\ call' = [op |-> "getRandomSnippet", category |-> category]
           /\ \/ /\ Len(snippets) = 0
                 /\ ret' = [threw |-> FALSE, value |-> Undefined]
                 /\ flatSnippets' = flatSnippets
              \/ \E randomIndex \in 1..Len(snippets) :
                   /\ ret' = [threw |-> FALSE,
                              value |-> Some(snippets[randomIndex])]
                   /\ flatSnippets' =
                        IndexAfter(flatSnippets, <<snippets[randomIndex]>>)
  /\ pc' = "returned"
  /\ UNCHANGED data

\* getStats(), lines 239-270: the assignments of lines 248, 254 and 262 go
\* to the local `categories` object and its records or, for a category
\* named like an inherited property, to that Object.prototype member; none
\* goes to the index or to an entry.
GetStats ==
  /\ pc = "ready"
  /\ call' = [op |-> "getStats"]
  /\ ret' = getStats(flatSnippets)
  /\ pc' = "returned"
  /\ UNCHANGED <<data, flatSnippets>>

\* The caller is done with the returned value; the instance is idle again.
Discard ==
  /\ pc = "returned"
  /\ pc' = "ready"
  /\ call' = NoCall
  /\ ret' = NoReturn
  /\ UNCHANGED <<data, flatSnippets>>

Next ==
  \/ Constructor
  \/ SearchSnippets
  \/ GetSnippet
  \/ GetSnippetsByCategory
  \/ GetSnippetsInFolder
  \/ GetCategories
  \/ GetRandomSnippet
  \/ GetStats
  \/ Discard

Spec == Init /\ [][Next]_vars

-----------------------------------------------------------------------------
(* What the claims speak of, read off the Document itself.                  *)

Range(seq) == {seq[i] : i \in 1..Len(seq)}

\* The entries of the flat index in iteration order, and its keys.
IndexEntries == ObjectEntries(flatSnippets)

IndexKeys == {IndexEntries[i][1] : i \in 1..Len(IndexEntries)}

IndexPos(key) == CHOOSE i \in 1..Len(IndexEntries) : IndexEntries[i][1] = key

Constructed == pc \in {"ready", "returned"}

HasSlash(s) == \E i \in 1..Len(s) : s[i] = "/"

\* Every node below obj is a well-formed folder or snippet and no key
\* contains '/'. (Sibling keys are unique in every object.)
RECURSIVE WellFormed(_)
WellFormed(obj) ==
  \A i \in 1..Len(obj) :
    LET node == obj[i][2]
    IN  /\ ~HasSlash(obj[i][1])
        /\ ~node.isNull
        /\ \/ node.type = "snippet" /\ node.text.defined
           \/ /\ node.type = "folder"
              /\ node.children.defined
              /\ WellFormed(node.children.value)

\* A valid Document all of whose keys are plain names: not empty, not
\* '__proto__', not an array index.
RECURSIVE PlainKeys(_)
PlainKeys(obj) ==
  \A i \in 1..Len(obj) :
    /\ obj[i][1] # <<>>
    /\ obj[i][1] # PROTO
    /\ ~IsArrayIndex(obj[i][1])
    /\ obj[i][2].children.defined => PlainKeys(obj[i][2].children.value)

OrdinaryDocument == WellFormed(data) /\ PlainKeys(data)

\* The paths (sequences of keys) of the nodes with type 'snippet' that are
\* reachable from obj through folders.
RECURSIVE SnippetPaths(_, _)
SnippetPaths(obj, path) ==
  UNION { LET node == obj[i][2]
              here == Append(path, obj[i][1])
          IN  IF node.isNull THEN {}
              ELSE IF node.type = "snippet" THEN {here}
              ELSE IF node.type = "folder" /\ node.children.defined
                   THEN SnippetPaths(node.children.value, here)
              ELSE {}
        : i \in 1..Len(obj) }

\* The node at a path of the Document.
RECURSIVE NodeAt(_, _)
NodeAt(obj, path) ==
  LET i == CHOOSE j \in 1..Len(obj) : obj[j][1] = path[1]
  IN  IF Len(path) = 1 THEN obj[i][2]
      ELSE NodeAt(obj[i][2].children.value, Tail(path))

\* Some node below obj is malformed in one of the ways C3 lists.
RECURSIVE HasListedMalformation(_)
HasListedMalformation(obj) ==
  \E i \in 1..Len(obj) :
    LET node == obj[i][2]
    IN  /\ ~node.isNull
        /\ \/ node.type \notin {"snippet", "folder"}
           \/ node.type = "folder" /\ ~node.children.defined
           \/ node.type = "snippet" /\ ~node.text.defined
           \/ /\ node.type = "folder"
              /\ node.children.defined
              /\ HasListedMalformation(node.children.value)

RECURSIVE HasNullNode(_)
HasNullNode(obj) ==
  \E i \in 1..Len(obj) :
    LET node == obj[i][2]
    IN  \/ node.isNull
        \/ /\ node.type = "folder"
           /\ node.children.defined
           /\ HasNullNode(node.children.value)

-----------------------------------------------------------------------------
(* C1 *)

\* C1 (as claimed): once a valid Document is indexed, the flat index holds
\* exactly one entry per snippet node reachable from the root (so as many
\* entries as snippet nodes) and no entry for a folder.
CE_C1_OneEntryPerSnippet ==
  (Constructed /\ WellFormed(data)) =>
    /\ Len(IndexEntries) = Cardinality(SnippetPaths(data, <<>>))
    /\ IndexKeys = {join(p) : p \in SnippetPaths(data, <<>>)}

-----------------------------------------------------------------------------
(* C2 *)

\* C2 (as claimed): getSnippet returns, for the key of an index entry, that
\* entry, and for every path that is no key of the index, null. Stated for
\* the indexes of valid Documents with plain keys.
CE_C2_TotalLookup ==
  (pc = "returned" /\ call.op = "getSnippet" /\ OrdinaryDocument) =>
    IF call.path \in IndexKeys
    THEN /\ ret.value.kind = "entry"
         /\ ret.value.entry.value = IndexEntries[IndexPos(call.path)][2]
    ELSE ret.value.kind = "null"

-----------------------------------------------------------------------------
(* C3 *)

\* C3 (as claimed): constructing a library from a Document with a node of
\* missing or unknown type, a folder without children or a snippet without
\* text fails.
CE_C3_MalformedFails ==
  (pc # "new" /\ HasListedMalformation(data)) => pc = "failed"

\* C3 (amended): such a Document does not make construction fail (only a
\* null in place of a node does); nodes of missing or unknown type and
\* folders without children are skipped with all below them, so every index
\* entry comes from a node of type 'snippet' reached through folders, and
\* carries that node's name and text, the text absent when the node has none.
T_C3_MalformedSkipped ==
  (pc # "new" /\ HasListedMalformation(data)) =>
    /\ pc = "failed" <=> HasNullNode(data)
    /\ \A i \in 1..Len(IndexEntries) :
         LET e == IndexEntries[i][2]
         IN  /\ e.path \in SnippetPaths(data, <<>>)
             /\ IndexEntries[i][1] = join(e.path)
             /\ e.name = NodeAt(data, e.path).name
             /\ e.text = NodeAt(data, e.path).text

\* C3 witness: an instance built from a Document with a skipped node, whose
\* index holds an entry without text.
W_C3_MalformedIndexed ==
  /\ pc = "ready"
  /\ \E i \in 1..Len(data) : data[i][2].type \notin {"snippet", "folder"}
  /\ \E i \in 1..Len(IndexEntries) : ~IndexEntries[i][2].text.defined

-----------------------------------------------------------------------------
(* Case-insensitive comparison, as the claims use it.                       *)

CIContains(s, q) == includes(toLowerCase(s), toLowerCase(q))

CIEquals(s, t) == toLowerCase(s) = toLowerCase(t)

SearchReturned ==
  pc = "returned" /\ call.op = "searchSnippets" /\ ~ret.threw

\* The fullPath values of a returned list.
FullPaths(list) == {list[i].fullPath : i \in 1..Len(list)}

\* A returned item is the entry at its fullPath, with nothing changed.
CarriesEntry(item) ==
  /\ item.fullPath \in IndexKeys
  /\ LET e == IndexEntries[IndexPos(item.fullPath)][2]
     IN  /\ item.name = e.name
         /\ item.text = e.text
         /\ item.path = e.path
         /\ item.category = e.category
         /\ item.subcategory = e.subcategory

\* The text predicate of search on the entry at index position i.
TextPredicate(i, query, searchInText) ==
  LET e == IndexEntries[i][2]
  IN  \/ CIContains(e.name, query)
      \/ CIContains(IndexEntries[i][1], query)
      \/ searchInText /\ e.text.defined /\ CIContains(e.text.value, query)

\* The keys search is claimed to return: text predicate and category
\* filter, the filter applying whenever a category option is given.
ClaimedMatches(query, options) ==
  { IndexEntries[i][1] : i \in
      { j \in 1..Len(IndexEntries) :
          /\ TextPredicate(j, query, options.searchInText)
          /\ \/ ~options.category.defined
             \/ CIEquals(IndexEntries[j][2].category, options.category.value) } }

\* The same, the filter applying when the category option is given and is
\* not the empty string.
FilteredMatches(query, options) ==
  { IndexEntries[i][1] : i \in
      { j \in 1..Len(IndexEntries) :
          /\ TextPredicate(j, query, options.searchInText)
          /\ \/ ~options.category.defined
             \/ options.category.value = <<>>
             \/ CIEquals(IndexEntries[j][2].category, options.category.value) } }

-----------------------------------------------------------------------------
(* C4 *)

\* C4 (as claimed): when no more entries match than maxResults, search
\* returns exactly the entries whose name or path string (or text, with
\* searchInText) contains the query case-insensitively and whose category
\* equals the category option, if one is given. Stated for the indexes of
\* valid Documents with plain keys and for maxResults >= 1.
CE_C4_SearchMatches ==
  (SearchReturned
     /\ OrdinaryDocument
     /\ call.options.maxResults >= 1
     /\ Cardinality(ClaimedMatches(call.query, call.options))
          <= call.options.maxResults) =>
    /\ FullPaths(ret.list) = ClaimedMatches(call.query, call.options)
    /\ Len(ret.list) = Cardinality(ClaimedMatches(call.query, call.options))

\* C4 (amended): the same, except that an empty-string category option
\* filters nothing, like an absent one.
T_C4_SearchMatches ==
  (SearchReturned
     /\ Cardinality(FilteredMatches(call.query, call.options))
          <= call.options.maxResults) =>
    /\ FullPaths(ret.list) = FilteredMatches(call.query, call.options)
    /\ Len(ret.list) = Cardinality(FilteredMatches(call.query, call.options))
    /\ \A i \in 1..Len(ret.list) : CarriesEntry(ret.list[i])

\* C4 witness: a search under the cap with a category filter that returns
\* an entry and leaves out an entry the text predicate accepts, and leaves
\* out an entry matching in its text alone because searchInText is unset.
W_C4_FilterExcludes ==
  /\ SearchReturned
  /\ call.options.category.defined
  /\ Len(call.options.category.value) > 0
  /\ ~call.options.searchInText
  /\ Len(ret.list) >= 1
  /\ Len(ret.list) <= call.options.maxResults
  /\ \E i \in 1..Len(IndexEntries) :
       /\ TextPredicate(i, call.query, FALSE)
       /\ IndexEntries[i][1] \notin FullPaths(ret.list)
  /\ \E i \in 1..Len(IndexEntries) :
       /\ TextPredicate(i, call.query, TRUE)
       /\ ~TextPredicate(i, call.query, FALSE)

-----------------------------------------------------------------------------
(* C5 *)

\* C5: the list search returns is in descending order of score, and two
\* returned entries of equal score are in flat-index iteration order.
T_C5_SortedStable ==
  SearchReturned =>
    \A i, j \in 1..Len(ret.list) :
      i < j =>
        /\ ret.list[i].score >= ret.list[j].score
        /\ ret.list[i].score = ret.list[j].score =>
             IndexPos(ret.list[i].fullPath) < IndexPos(ret.list[j].fullPath)

\* C5 witness: a returned list where the sort moved a later index entry to
\* the front and two entries tie.
W_C5_TieAndReorder ==
  /\ SearchReturned
  /\ Len(ret.list) >= 3
  /\ \E i \in 1..(Len(ret.list) - 1) :
       ret.list[i].score = ret.list[i + 1].score
  /\ \E i \in 1..(Len(ret.list) - 1) :
       IndexPos(ret.list[i].fullPath) > IndexPos(ret.list[i + 1].fullPath)

-----------------------------------------------------------------------------
(* C6 *)

\* The first n elements of a set of index keys, in iteration order.
FirstInIndexOrder(keys, n) ==
  { k \in keys :
      Cardinality({k2 \in keys : IndexPos(k2) < IndexPos(k)}) < n }

\* C6 (as claimed): for every maxResults >= 0 search returns at most
\* maxResults entries, namely the first maxResults matching entries in
\* flat-index iteration order. Stated for the indexes of valid Documents
\* with plain keys.
CE_C6_CapBeforeSort ==
  (SearchReturned /\ OrdinaryDocument /\ call.options.maxResults >= 0) =>
    /\ Len(ret.list) <= call.options.maxResults
    /\ FullPaths(ret.list) =
         FirstInIndexOrder(FilteredMatches(call.query, call.options),
                           call.options.maxResults)

-----------------------------------------------------------------------------
(* C7 *)

\* The fullPaths getSnippetsByCategory returns for category c.
ByCategory(c) == FullPaths(getSnippetsByCategory(flatSnippets, c))

\* The index positions whose category equals c case-insensitively.
CategoryPositions(c) ==
  SelectSeq([i \in 1..Len(IndexEntries) |-> i],
            LAMBDA i : CIEquals(IndexEntries[i][2].category, c))

\* getSnippetsByCategory returned exactly the entries of category c
\* (case-insensitively), in iteration order.
ByCategoryExact ==
  (pc = "returned" /\ call.op = "getSnippetsByCategory") =>
    LET want == CategoryPositions(call.category)
    IN  /\ Len(ret.list) = Len(want)
        /\ \A i \in 1..Len(want) :
             /\ ret.list[i].fullPath = IndexEntries[want[i]][1]
             /\ CarriesEntry(ret.list[i])

\* C7 (as claimed): getSnippetsByCategory returns exactly the entries of
\* the category, and over the distinct categories getCategories reports the
\* result sets are pairwise disjoint and cover the index (the partition
\* stated for the indexes of valid Documents with plain keys).
CE_C7_Partition ==
  /\ ByCategoryExact
  /\ (pc = "returned" /\ call.op = "getCategories" /\ OrdinaryDocument) =>
       /\ \A i, j \in 1..Len(ret.list) :
            i # j => ByCategory(ret.list[i]) \cap ByCategory(ret.list[j]) = {}
       /\ UNION {ByCategory(ret.list[i]) : i \in 1..Len(ret.list)} = IndexKeys

\* C7 (amended): getSnippetsByCategory returns exactly the entries of the
\* category, in iteration order; getCategories reports each distinct
\* category value once; the result sets cover the index, and the sets of two
\* reported categories are disjoint unless the two categories are equal up
\* to letter case, in which case they are the same set.
T_C7_Partition ==
  /\ ByCategoryExact
  /\ (pc = "returned" /\ call.op = "getCategories") =>
       /\ Range(ret.list) =
            {IndexEntries[i][2].category : i \in 1..Len(IndexEntries)}
       /\ \A i, j \in 1..Len(ret.list) :
            i # j =>
              /\ ret.list[i] # ret.list[j]
              /\ IF CIEquals(ret.list[i], ret.list[j])
                 THEN ByCategory(ret.list[i]) = ByCategory(ret.list[j])
                 ELSE ByCategory(ret.list[i]) \cap ByCategory(ret.list[j]) = {}
       /\ UNION {ByCategory(ret.list[i]) : i \in 1..Len(ret.list)} = IndexKeys

\* C7 witness: getSnippetsByCategory returned entries whose category
\* differs from the argument in letter case, from an index with a second
\* category.
W_C7_CaseInsensitive ==
  /\ pc = "returned"
  /\ call.op = "getSnippetsByCategory"
  /\ \E i \in 1..Len(ret.list) : ret.list[i].category # call.category
  /\ Len(ret.list) < Len(IndexEntries)

-----------------------------------------------------------------------------
(* C8 *)

\* The score the claim gives the entry `item` for `query`.
ClaimedScore(item, query) ==
  (IF CIEquals(item.name, query) THEN 100
   ELSE IF CIContains(item.name, query) THEN 50
   ELSE 0)
  + (IF CIContains(item.fullPath, query) THEN 25 ELSE 0)
  - Len(item.path)

\* C8: every returned entry's score is 100 for a name equal to the query,
\* else 50 for a name containing it, else 0, plus 25 if the path string
\* contains it, minus the number of path segments; so of two entries with
\* the same name and path outcome the one with fewer segments scores higher.
T_C8_Score ==
  SearchReturned =>
    /\ \A i \in 1..Len(ret.list) :
         ret.list[i].score = ClaimedScore(ret.list[i], call.query)
    /\ \A i, j \in 1..Len(ret.list) :
         (/\ CIEquals(ret.list[i].name, call.query)
               = CIEquals(ret.list[j].name, call.query)
          /\ CIContains(ret.list[i].name, call.query)
               = CIContains(ret.list[j].name, call.query)
          /\ CIContains(ret.list[i].fullPath, call.query)
               = CIContains(ret.list[j].fullPath, call.query)
          /\ Len(ret.list[i].path) < Len(ret.list[j].path))
         => ret.list[i].score > ret.list[j].score

\* C8 witness: a returned list with an exact name match, a partial name
\* match and a path-only match, two of them at different depths with the
\* same name and path outcome.
W_C8_ScoreCases ==
  /\ SearchReturned
  /\ Len(call.query) > 0
  /\ \E i \in 1..Len(ret.list) : ret.list[i].score > 100
  /\ \E i \in 1..Len(ret.list) :
       ret.list[i].score > 25 /\ ret.list[i].score < 100
  /\ \E i, j \in 1..Len(ret.list) :
       /\ CIEquals(ret.list[i].name, call.query)
            = CIEquals(ret.list[j].name, call.query)
       /\ CIContains(ret.list[i].name, call.query)
            = CIContains(ret.list[j].name, call.query)
       /\ CIContains(ret.list[i].fullPath, call.query)
            = CIContains(ret.list[j].fullPath, call.query)
       /\ Len(ret.list[i].path) < Len(ret.list[j].path)

-----------------------------------------------------------------------------
(* C9 *)

\* C9 (as claimed): every entry's key is its slash-joined path, the path of
\* a snippet of the Document; its category is the first segment if it has an
\* enclosing folder and "Root" otherwise; its subcategory is the second
\* segment if it has two enclosing folders and absent otherwise.
CE_C9_CategoryIsFirstSegment ==
  Constructed =>
    \A i \in 1..Len(IndexEntries) :
      LET e == IndexEntries[i][2]
      IN  /\ IndexEntries[i][1] = join(e.path)
          /\ e.path \in SnippetPaths(data, <<>>)
          /\ e.category = IF Len(e.path) >= 2 THEN e.path[1] ELSE ROOT
          /\ e.subcategory =
               IF Len(e.path) >= 3 THEN Some(e.path[2]) ELSE Undefined

\* C9 (amended): the same, except that an enclosing folder whose name is
\* the empty string counts as none: the category is "Root" when the first
\* folder's name is empty, and the subcategory is absent when the second
\* folder's name is empty.
T_C9_CategoryIsFirstSegment ==
  Constructed =>
    \A i \in 1..Len(IndexEntries) :
      LET e == IndexEntries[i][2]
      IN  /\ IndexEntries[i][1] = join(e.path)
          /\ e.path \in SnippetPaths(data, <<>>)
          /\ e.category =
               IF Len(e.path) >= 2 /\ e.path[1] # <<>> THEN e.path[1] ELSE ROOT
          /\ e.subcategory =
               IF Len(e.path) >= 3 /\ e.path[2] # <<>>
               THEN Some(e.path[2]) ELSE Undefined

\* C9 witness: an index with a snippet in two named folders, which has
\* its category and subcategory, and a snippet in a folder with the empty
\* name, which has the category "Root".
W_C9_Depths ==
  /\ pc = "ready"
  /\ \E i \in 1..Len(IndexEntries) :
       /\ Len(IndexEntries[i][2].path) = 3
       /\ IndexEntries[i][2].subcategory = Some(IndexEntries[i][2].path[2])
       /\ IndexEntries[i][2].category = IndexEntries[i][2].path[1]
       /\ IndexEntries[i][2].category # ROOT
  /\ \E i \in 1..Len(IndexEntries) :
       /\ Len(IndexEntries[i][2].path) >= 2
       /\ IndexEntries[i][2].path[1] = <<>>
       /\ IndexEntries[i][2].category = ROOT

-----------------------------------------------------------------------------
(* C10 *)

\* C10 (as claimed): search with a negative maxResults fails with an error,
\* and with well-formed options no call on a constructed library fails.
\* Stated for the indexes of valid Documents with plain keys.
CE_C10_NegativeMaxResultsFails ==
  (pc = "returned" /\ OrdinaryDocument) =>
    IF call.op = "searchSnippets" /\ call.options.maxResults < 0
    THEN ret.threw
    ELSE ~ret.threw

-----------------------------------------------------------------------------
(* C11 *)

\* key is f, then '/', then anything.
UnderFolder(key, f) ==
  /\ Len(key) > Len(f)
  /\ \A i \in 1..Len(f) : key[i] = f[i]
  /\ key[Len(f) + 1] = "/"

\* The index positions whose key lies under folder f, in iteration order.
FolderPositions(f) ==
  SelectSeq([i \in 1..Len(IndexEntries) |-> i],
            LAMBDA i : UnderFolder(IndexEntries[i][1], f))

InFolderReturned == pc = "returned" /\ call.op = "getSnippetsInFolder"

\* C11: getSnippetsInFolder(f) returns exactly the index entries whose key
\* starts with f followed by '/', in iteration order, each carrying its
\* entry; so every snippet of the Document below the folder named f, at any
\* depth, is returned, the entry whose key is exactly f is not, and a key
\* that continues f without the '/' is not.
T_C11_InFolder ==
  InFolderReturned =>
    LET f == call.folderPath
        want == FolderPositions(f)
    IN  /\ ~ret.threw
        /\ Len(ret.list) = Len(want)
        /\ \A i \in 1..Len(want) :
             /\ ret.list[i].fullPath = IndexEntries[want[i]][1]
             /\ CarriesEntry(ret.list[i])
        /\ \A p \in SnippetPaths(data, <<>>) :
             \A n \in 1..(Len(p) - 1) :
               join(SubSeq(p, 1, n)) = f => join(p) \in FullPaths(ret.list)
        /\ f \notin FullPaths(ret.list)
        /\ \A k \in FullPaths(ret.list) : k[Len(f) + 1] = "/"

\* C11 witness: getSnippetsInFolder('a') returned a snippet three segments
\* deep and left out an entry whose key starts with 'ab/'.
W_C11_NestedAndTextualPrefix ==
  /\ InFolderReturned
  /\ call.folderPath = <<"a">>
  /\ \E i \in 1..Len(ret.list) : Len(ret.list[i].path) = 3
  /\ \E k \in IndexKeys \ FullPaths(ret.list) :
       Len(k) > 2 /\ SubSeq(k, 1, 3) = <<"a", "b", "/">>

-----------------------------------------------------------------------------
(* C12 *)

StatsReturned == pc = "returned" /\ call.op = "getStats"

\* The distinct category values of the index.
IndexCategories ==
  {IndexEntries[i][2].category : i \in 1..Len(IndexEntries)}

\* The index positions whose entry has category c.
PositionsOfCategory(c) ==
  {i \in 1..Len(IndexEntries) : IndexEntries[i][2].category = c}

\* The distinct subcategory values, other than absent, of the entries with
\* category c.
SubcategoriesOf(c) ==
  {IndexEntries[i][2].subcategory.value :
     i \in {j \in PositionsOfCategory(c) :
              IndexEntries[j][2].subcategory.defined}}

\* The sum of the count fields of a categoriesDetail.
RECURSIVE SumCounts(_)
SumCounts(detail) ==
  IF Len(detail) = 0 THEN 0
  ELSE detail[1][2].count + SumCounts(Tail(detail))

\* C12 (as claimed, for the indexes of valid Documents): getStats returns
\* totalSnippets = the number of index entries, categories = the number of
\* distinct category values = the length of getCategories(), a
\* categoriesDetail record for each category with its entry count and
\* exactly its distinct subcategories, and counts that sum to totalSnippets.
CE_C12_Stats ==
  (StatsReturned /\ WellFormed(data)) =>
    /\ ~ret.threw
    /\ ret.totalSnippets = Len(IndexEntries)
    /\ ret.categories = Cardinality(IndexCategories)
    /\ ret.categories = Len(getCategories(flatSnippets))
    /\ \A c \in IndexCategories :
         /\ HasOwn(ret.categoriesDetail, c)
         /\ LET d == ret.categoriesDetail[OwnIndex(ret.categoriesDetail, c)][2]
            IN  /\ d.count = Cardinality(PositionsOfCategory(c))
                /\ Range(d.subcategories) = SubcategoriesOf(c)
                /\ Len(d.subcategories) = Cardinality(SubcategoriesOf(c))
    /\ SumCounts(ret.categoriesDetail) = ret.totalSnippets

-----------------------------------------------------------------------------
(* C13 *)

\* The index the constructor builds from the Document (line 9).
BuiltIndex == flattenSnippets(data, <<>>, EmptyObject)

\* C13: once the instance is constructed, whatever query calls have been
\* made and whichever has just returned (getSnippet, getSnippetsByCategory,
\* getSnippetsInFolder, searchSnippets, getCategories, getRandomSnippet,
\* getStats, with any arguments), the flat index is the one built at
\* construction: the same keys in the same iteration order with the same
\* entry field values.
T_C13_IndexUnchanged ==
  Constructed =>
    /\ flatSnippets = BuiltIndex
    /\ \A i \in 1..Len(IndexEntries) :
         DOMAIN IndexEntries[i][2] =
           {"name", "text", "path", "category", "subcategory"}

\* C13 witness: searchSnippets has returned two or more items built from
\* the entries, in an order that is not the index's iteration order.
W_C13_AfterReorderingSearch ==
  /\ pc = "returned"
  /\ call.op = "searchSnippets"
  /\ ~ret.threw
  /\ \E i, j \in 1..Len(ret.list) :
       /\ i < j
       /\ IndexPos(ret.list[i].fullPath) > IndexPos(ret.list[j].fullPath)

====
